---- MODULE Spec2Model ----
(***************************************************************************)
(* metamaska: payload classification engine.                               *)
(*                                                                         *)
(*   metamaska/payload_classifier.py  _ensure_model, PayloadClassifier     *)
(*   scripts/train.py                 main (training job, accuracy gate)   *)
(*   scripts/collect_data.py          _make_record, deduplicate, main      *)
(*                                                                         *)
(* Four specifications, one per component:                                 *)
(*   SpecNorm    a Ready engine: _transform / predict / predict_proba      *)
(*   SpecLoad    concurrent PayloadClassifier(path) constructions          *)
(*   SpecTrain   one run of scripts/train.py main()                        *)
(*   SpecCollect one run of scripts/collect_data.py main()                 *)
(*                                                                         *)
(* Text is a sequence of Unicode code points.                              *)
(***************************************************************************)
EXTENDS Integers, Sequences, FiniteSets, TLC

VARIABLES
    \* ---- inference engine (payload_classifier.py:22-45)
    eng,        \* the constructed engine: payload_clf and classes_
    inp,        \* the payload argument of the call
    op,         \* which method was called last
    ret,        \* what the call returned or raised
    ret2,       \* what _transform returned when applied to its own output
    clfCalls,   \* number of invocations of the fitted pipeline payload_clf
    \* ---- artifact loader (payload_classifier.py:13-26)
    files,      \* regular files of the local filesystem
    dirs,       \* directories of the local filesystem
    thr,        \* per caller: position in __init__ / _ensure_model and locals
    fetchedOK,  \* paths for which a call of _ensure_model returned after a fetch
    \* ---- training job (train.py:57-99)
    datasetExists, dataset, tpc, trainIdx, testIdx, fitted, testCorrect,
    modelFile, terr,
    \* ---- dataset collector (collect_data.py:245-276)
    all_records, collected, cpc, outFile

engVars   == <<eng, inp, op, ret, ret2, clfCalls>>
loadVars  == <<files, dirs, thr, fetchedOK>>
trainVars == <<datasetExists, dataset, tpc, trainIdx, testIdx, fitted,
               testCorrect, modelFile, terr>>
collVars  == <<all_records, collected, cpc, outFile>>
vars      == <<engVars, loadVars, trainVars, collVars>>

-----------------------------------------------------------------------------
(* Bounds                                                                  *)

\* longest payload given to the engine
MaxLen == 4

\* Characters payloads are built from:
\*   '%' 37, '+' 43, ' ' 32, '\n' 10, '\r' 13, 'A' 65, '0' 48, '2' 50, '5' 53.
\* With the hex digits A, 0, 2, 5 the escapes decode to
\*   %0A '\n'  %20 ' '  %25 '%'  %2A '*'  %22 '"'  %5A 'Z'  %50 'P' ...
\* and %A0, %A2, %A5, %AA to bytes >= 0x80.
Alphabet == {37, 43, 32, 10, 13, 65, 48, 50, 53}

RECURSIVE SeqsUpTo(_, _)
SeqsUpTo(S, n) ==
    IF n = 0 THEN {<<>>}
    ELSE LET shorter == SeqsUpTo(S, n - 1)
         IN  shorter \cup {Append(s, c) : s \in {x \in shorter : Len(x) = n - 1}, c \in S}

Texts == SeqsUpTo(Alphabet, MaxLen)

-----------------------------------------------------------------------------
(* Python values                                                           *)

NoneV  == [t |-> "None", s |-> <<>>]
Str(s) == [t |-> "str", s |-> s]

\* `not v` for v a str or None
Falsy(v) == v.t = "None" \/ v.s = <<>>

NoResult      == [kind |-> "none",  s |-> <<>>, err |-> ""]
Returned(k, s) == [kind |-> k,      s |-> s,    err |-> ""]
Raised(e)     == [kind |-> "raise", s |-> <<>>, err |-> e]

-----------------------------------------------------------------------------
(* metamaska.utils: unquote, remove_new_line, remove_whitespace            *)

\* str.isspace() characters below U+0080
Whitespace == {9, 10, 11, 12, 13, 28, 29, 30, 31, 32}

NewLines == {10, 13}

HexVal(c) ==
    IF c \in 48..57 THEN c - 48
    ELSE IF c \in 65..70 THEN c - 55
    ELSE IF c \in 97..102 THEN c - 87
    ELSE -1

IsHex(c) == HexVal(c) >= 0

\* One decoded byte as text (UTF-8, errors="replace"). Bytes >= 0x80 reachable
\* from Alphabet are continuation bytes (0xA0..0xAA) and no lead byte is
\* reachable, so each of them is an invalid sequence and becomes U+FFFD.
DecodeByte(b) == IF b < 128 THEN b ELSE 65533

\* unquote: one left-to-right pass; '+' is a space, %XX is the byte XX, a '%'
\* not followed by two hex digits is kept.
RECURSIVE Unquote(_)
Unquote(s) ==
    IF s = <<>> THEN <<>>
    ELSE IF Head(s) = 37 /\ Len(s) >= 3 /\ IsHex(s[2]) /\ IsHex(s[3])
         THEN <<DecodeByte(16 * HexVal(s[2]) + HexVal(s[3]))>>
                  \o Unquote(SubSeq(s, 4, Len(s)))
    ELSE IF Head(s) = 43 THEN <<32>> \o Unquote(Tail(s))
    ELSE <<Head(s)>> \o Unquote(Tail(s))

\* remove_new_line: every '\n' and '\r' is deleted
RemoveNewLine(s) == SelectSeq(s, LAMBDA c : c \notin NewLines)

\* str.lower
LowerChar(c) == IF c \in 65..90 THEN c + 32 ELSE c
Lower(s) == [i \in 1..Len(s) |-> LowerChar(s[i])]

\* str.strip
RECURSIVE LStrip(_)
LStrip(s) == IF s # <<>> /\ Head(s) \in Whitespace THEN LStrip(Tail(s)) ELSE s

RECURSIVE RStrip(_)
RStrip(s) ==
    IF s # <<>> /\ s[Len(s)] \in Whitespace
    THEN RStrip(SubSeq(s, 1, Len(s) - 1)) ELSE s

Strip(s) == RStrip(LStrip(s))

\* every run of whitespace becomes one space
RECURSIVE Collapse(_)
Collapse(s) ==
    IF s = <<>> THEN <<>>
    ELSE IF Head(s) \in Whitespace
         THEN <<32>> \o Collapse(LStrip(s))
    ELSE <<Head(s)>> \o Collapse(Tail(s))

\* remove_whitespace: strip, then collapse inner runs of whitespace
RemoveWhitespace(s) == Collapse(Strip(s))

-----------------------------------------------------------------------------
(* PayloadClassifier._transform, predict, predict_proba                    *)

ErrPayloadRequired == "ValueError: payload is required."

\* _transform with the empty check left out
TransformNoCheck(payload) ==
    Returned("str", RemoveWhitespace(Lower(RemoveNewLine(Unquote(payload.s)))))

\* _transform lowercasing before it decodes
TransformLowerFirst(payload) ==
    IF Falsy(payload) THEN Raised(ErrPayloadRequired)
    ELSE Returned("str", RemoveWhitespace(RemoveNewLine(Unquote(Lower(payload.s)))))

\* _transform without the remove_new_line step
TransformKeepNewLine(payload) ==
    IF Falsy(payload) THEN Raised(ErrPayloadRequired)
    ELSE Returned("str", RemoveWhitespace(Lower(Unquote(payload.s))))

Transform(payload) ==
    IF Falsy(payload) THEN Raised(ErrPayloadRequired)
    ELSE Returned("str", RemoveWhitespace(Lower(RemoveNewLine(Unquote(payload.s)))))

\* The engine after a successful __init__
ReadyEngine == [payload_clf |-> "artifact",
                classes_    |-> {"valid", "sqli", "xss", "cmdi", "path-traversal"}]

EngInit ==
    /\ eng = ReadyEngine
    /\ inp \in {NoneV} \cup {Str(s) : s \in Texts}
    /\ op = "none"
    /\ ret = NoResult
    /\ ret2 = NoResult
    /\ clfCalls = 0

EngIdle ==
    /\ eng = ReadyEngine /\ inp = NoneV /\ op = "none"
    /\ ret = NoResult /\ ret2 = NoResult /\ clfCalls = 0

\* normalize: a direct call of _transform
CallTransform ==
    /\ op = "none"
    /\ op' = "_transform"
    /\ ret' = Transform(inp)
    /\ UNCHANGED <<eng, inp, ret2, clfCalls>>

\* _transform applied to the text it returned
CallTransformAgain ==
    /\ op = "_transform" /\ ret.kind = "str"
    /\ op' = "_transform2"
    /\ ret2' = Transform(Str(ret.s))
    /\ UNCHANGED <<eng, inp, ret, clfCalls>>

\* predict / predict_proba: _transform, then the fitted pipeline on [payload];
\* an exception of _transform leaves the method before the pipeline is called.
\* The pipeline's answer is kept symbolic: kind(of the normalized text).
CallPipeline(method, kind) ==
    /\ op = "none"
    /\ op' = method
    /\ LET t == Transform(inp)
       IN  IF t.kind = "raise"
           THEN ret' = t /\ clfCalls' = clfCalls
           ELSE ret' = Returned(kind, t.s) /\ clfCalls' = clfCalls + 1
    /\ UNCHANGED <<eng, inp, ret2>>

CallPredict == CallPipeline("predict", "label")

CallPredictProba == CallPipeline("predict_proba", "proba")

-----------------------------------------------------------------------------
(* Artifact loader: _ensure_model and PayloadClassifier.__init__           *)
(* A path is the sequence of its components; "" is the empty sequence.     *)

\* calls of PayloadClassifier(path) per caller
MaxCalls == 2

Callers == {"c1", "c2"}

\* os.path.join(os.path.dirname(__file__), 'models', 'payload_clf.joblib')
DEFAULT_LOCATION == <<"metamaska", "models", "payload_clf.joblib">>

HF_FILENAME == <<"models", "payload_clf.joblib">>

\* a caller-chosen location, a bare file name, and the empty path
CustomPath == <<"cache", "clf.joblib">>
BarePath   == <<"clf.joblib">>
EmptyPath  == <<>>

CallerPaths == {EmptyPath, DEFAULT_LOCATION, CustomPath, BarePath}

\* os.path.dirname
Dirname(p) == IF p = <<>> THEN <<>> ELSE SubSeq(p, 1, Len(p) - 1)

\* the path itself and its ancestors, without the working directory
Prefixes(p) == {SubSeq(p, 1, n) : n \in 1..Len(p)}

\* os.path.isfile answering False for every path
IsFileNever(p, fs) == FALSE

\* os.path.isfile
IsFile(p, fs) == p \in fs

\* os.makedirs(d, exist_ok=True) succeeds: d is not "" and no component of d
\* is a regular file
MakedirsOk(d, fs) == d # <<>> /\ Prefixes(d) \cap fs = {}

\* where hf_hub_download(repo_id, filename=HF_FILENAME, local_dir=...) puts,
\* and what it returns for, the artifact
FetchDest(p) == Dirname(Dirname(p)) \o HF_FILENAME

ErrNoModelFile == "ValueError: payload clf model file doesn't exist"
ErrMakedirs    == "OSError: os.makedirs"
ErrFetch       == "hf_hub_download failed"
ErrLoad        == "FileNotFoundError: joblib.load"

NewCall(p, n, late) ==
    [pc |-> "L14", path |-> p, model_path |-> <<>>, err |-> "",
     existed |-> "unchecked", mkdirs |-> FALSE, fetch |-> FALSE,
     calls |-> n, late |-> late]

\* The filesystems a process can start in: the package directory exists; any
\* of the artifact locations may already hold a file; "cache" may be a
\* regular file.
StartFiles ==
    {F \in SUBSET {DEFAULT_LOCATION, CustomPath, BarePath, FetchDest(CustomPath), <<"cache">>} :
        \A f \in F : Prefixes(Dirname(f)) \cap F = {}}

StartDirs(F) == {<<"metamaska">>} \cup UNION {Prefixes(Dirname(f)) : f \in F}

LoadInit ==
    /\ files \in StartFiles
    /\ dirs = StartDirs(files)
    /\ thr \in [Callers -> {[NewCall(p, 0, FALSE) EXCEPT !.pc = "idle"] : p \in CallerPaths}]
    /\ fetchedOK = {}

LoadIdle ==
    /\ files = {} /\ dirs = {}
    /\ thr = [c \in Callers |-> [NewCall(EmptyPath, 0, FALSE) EXCEPT !.pc = "idle"]]
    /\ fetchedOK = {}

\* PayloadClassifier(path) is called (line 23-24)
Begin(c) ==
    /\ thr[c].pc \in {"idle", "ready", "failed"}
    /\ thr[c].calls < MaxCalls
    /\ thr' = [thr EXCEPT ![c] = NewCall(thr[c].path, thr[c].calls + 1,
                                         thr[c].path \in fetchedOK)]
    /\ UNCHANGED <<files, dirs, fetchedOK>>

\* line 14 falling through on an empty path
CheckPathNoRaise(c) ==
    /\ thr[c].pc = "L14"
    /\ thr' = [thr EXCEPT ![c].pc = "L16"]
    /\ UNCHANGED <<files, dirs, fetchedOK>>

\* line 14-15: if not path: raise ValueError
CheckPath(c) ==
    /\ thr[c].pc = "L14"
    /\ thr' = IF thr[c].path = <<>>
              THEN [thr EXCEPT ![c].pc = "failed", ![c].err = ErrNoModelFile]
              ELSE [thr EXCEPT ![c].pc = "L16"]
    /\ UNCHANGED <<files, dirs, fetchedOK>>

\* line 16-17: if os.path.isfile(path): return path
\* (existed records whether a file was at path when the test ran)
CheckFile(c) ==
    /\ thr[c].pc = "L16"
    /\ LET there == IF thr[c].path \in files THEN "yes" ELSE "no"
       IN  thr' = IF IsFile(thr[c].path, files)
                  THEN [thr EXCEPT ![c].pc = "L25", ![c].existed = there,
                                   ![c].model_path = thr[c].path]
                  ELSE [thr EXCEPT ![c].pc = "L18", ![c].existed = there]
    /\ UNCHANGED <<files, dirs, fetchedOK>>

\* line 18: os.makedirs(os.path.dirname(path), exist_ok=True)
MakeDirs(c) ==
    /\ thr[c].pc = "L18"
    /\ LET d == Dirname(thr[c].path)
       IN  IF MakedirsOk(d, files)
           THEN /\ dirs' = dirs \cup Prefixes(d)
                /\ thr' = [thr EXCEPT ![c].pc = "L19", ![c].mkdirs = TRUE]
           ELSE /\ dirs' = dirs
                /\ thr' = [thr EXCEPT ![c].pc = "failed", ![c].mkdirs = TRUE,
                                      ![c].err = ErrMakedirs]
    /\ UNCHANGED <<files, fetchedOK>>

\* line 19: hf_hub_download(...) is called
FetchStart(c) ==
    /\ thr[c].pc = "L19"
    /\ thr' = [thr EXCEPT ![c].pc = "fetching", ![c].fetch = TRUE]
    /\ UNCHANGED <<files, dirs, fetchedOK>>

\* line 19: hf_hub_download returns the local path of the downloaded file
FetchReturn(c) ==
    /\ thr[c].pc = "fetching"
    /\ LET dest == FetchDest(thr[c].path)
       IN  /\ MakedirsOk(Dirname(dest), files)
           /\ dest \notin dirs
           /\ files' = files \cup {dest}
           /\ dirs' = dirs \cup Prefixes(Dirname(dest))
           /\ thr' = [thr EXCEPT ![c].pc = "L25", ![c].model_path = dest]
    /\ fetchedOK' = fetchedOK \cup {thr[c].path}

\* line 19: hf_hub_download raises (network, repository or local storage)
FetchRaise(c) ==
    /\ thr[c].pc = "fetching"
    /\ thr' = [thr EXCEPT ![c].pc = "failed", ![c].err = ErrFetch]
    /\ UNCHANGED <<files, dirs, fetchedOK>>

\* line 25-26: joblib.load(model_path); classes_
Load(c) ==
    /\ thr[c].pc = "L25"
    /\ thr' = IF thr[c].model_path \in files
              THEN [thr EXCEPT ![c].pc = "ready"]
              ELSE [thr EXCEPT ![c].pc = "failed", ![c].err = ErrLoad]
    /\ UNCHANGED <<files, dirs, fetchedOK>>

-----------------------------------------------------------------------------
(* Training job: scripts/train.py main()                                   *)

\* most records in data/processed/dataset.json
MaxData == 5

\* TEST_SIZE = 0.25 and MIN_ACCURACY = 0.98, in percent
TestPct == 25
MinAccuracyPct == 98

\* VALID_TYPES (collect_data.py): the closed label set
VALID_TYPES == {"valid", "sqli", "xss", "cmdi", "path-traversal"}

\* Records the dataset file may hold: "a" labelled valid, "%27" labelled sqli,
\* and "a" under the label lfi, which is not one of VALID_TYPES.
TrainRecords ==
    {[pattern |-> <<97>>,         type |-> "valid"],
     [pattern |-> <<37, 50, 55>>, type |-> "sqli"],
     [pattern |-> <<97>>,         type |-> "lfi"]}

Datasets == SeqsUpTo(TrainRecords, MaxData)

LabelsOf(ds) == {ds[i].type : i \in DOMAIN ds}

ClassIdx(ds, l) == {i \in DOMAIN ds : ds[i].type = l}

\* train_test_split: n_test = ceil(test_size * n), n_train = n - n_test
NTest(n)  == (n * TestPct + 99) \div 100
NTrain(n) == n - NTest(n)

\* train_test_split(..., stratify=y) raises ValueError: the train set would be
\* empty, a class has fewer than 2 members, or a partition is smaller than
\* the number of classes
SplitRaises(ds) ==
    LET n == Len(ds)
    IN  \/ NTrain(n) = 0
        \/ \E l \in LabelsOf(ds) : Cardinality(ClassIdx(ds, l)) < 2
        \/ NTrain(n) < Cardinality(LabelsOf(ds))
        \/ NTest(n) < Cardinality(LabelsOf(ds))

\* The train partitions a stratified split can give: n_train indices, each
\* class taking its proportional share rounded down or up.
TrainSplits(ds) ==
    LET n == Len(ds)
        k == NTrain(n)
    IN  {S \in SUBSET (1..n) :
            /\ Cardinality(S) = k
            /\ \A l \in LabelsOf(ds) :
                 LET nl == Cardinality(ClassIdx(ds, l))
                     kl == Cardinality(S \cap ClassIdx(ds, l))
                 IN  /\ kl >= (nl * k) \div n
                     /\ kl <= (nl * k + n - 1) \div n}

\* TfidfVectorizer(lowercase=True): the text whose n-grams are taken
TfidfText(s) == Lower(s)

\* line 90 with the comparison turned around
BelowThresholdInverted(correct, n) == correct * 100 > MinAccuracyPct * n

\* line 90: test_acc < MIN_ACCURACY, with test_acc = correct / n
BelowThreshold(correct, n) == correct * 100 < MinAccuracyPct * n

ErrNoDataset      == "exit(1): Dataset not found"
ErrEmptyFrame     == "KeyError: 'type'"
ErrSplit          == "ValueError: train_test_split"
ErrOneClass       == "ValueError: SVC needs more than one class"
ErrBelowThreshold == "exit(1): Test accuracy is below minimum threshold"

NotFitted == [idx |-> {}, texts |-> <<>>, classes |-> {}]

TrainInit ==
    /\ datasetExists \in BOOLEAN
    /\ dataset \in Datasets
    /\ modelFile \in {"absent", "old"}
    /\ tpc = "L58"
    /\ trainIdx = {} /\ testIdx = {}
    /\ fitted = NotFitted
    /\ testCorrect = -1
    /\ terr = ""

TrainIdle ==
    /\ datasetExists = FALSE /\ dataset = <<>> /\ modelFile = "absent"
    /\ tpc = "L58" /\ trainIdx = {} /\ testIdx = {} /\ fitted = NotFitted
    /\ testCorrect = -1 /\ terr = ""

\* line 58-61: the dataset file must exist
CheckDataset ==
    /\ tpc = "L58"
    /\ IF datasetExists
       THEN tpc' = "L64" /\ terr' = terr
       ELSE tpc' = "exit" /\ terr' = ErrNoDataset
    /\ UNCHANGED <<datasetExists, dataset, trainIdx, testIdx, fitted, testCorrect, modelFile>>

\* line 64-68: read_json, df["type"], X and y; an empty array gives a frame
\* without columns
LoadDataset ==
    /\ tpc = "L64"
    /\ IF dataset = <<>>
       THEN tpc' = "exit" /\ terr' = ErrEmptyFrame
       ELSE tpc' = "L71" /\ terr' = terr
    /\ UNCHANGED <<datasetExists, dataset, trainIdx, testIdx, fitted, testCorrect, modelFile>>

\* line 71-73: train_test_split raises
SplitFails ==
    /\ tpc = "L71"
    /\ SplitRaises(dataset)
    /\ tpc' = "exit" /\ terr' = ErrSplit
    /\ UNCHANGED <<datasetExists, dataset, trainIdx, testIdx, fitted, testCorrect, modelFile>>

\* line 71-73: train_test_split returns the two partitions
Split ==
    /\ tpc = "L71"
    /\ ~SplitRaises(dataset)
    /\ \E S \in TrainSplits(dataset) :
         /\ trainIdx' = S
         /\ testIdx' = DOMAIN dataset \ S
    /\ tpc' = "L80"
    /\ UNCHANGED <<datasetExists, dataset, fitted, testCorrect, modelFile, terr>>

\* line 76-80: pipe.fit(train_x, train_y); train_x are the patterns as read
Fit ==
    /\ tpc = "L80"
    /\ LET classes == {dataset[i].type : i \in trainIdx}
       IN  IF Cardinality(classes) < 2
           THEN tpc' = "exit" /\ terr' = ErrOneClass /\ fitted' = fitted
           ELSE /\ tpc' = "L82" /\ terr' = terr
                /\ fitted' = [idx     |-> trainIdx,
                              texts   |-> [i \in trainIdx |-> TfidfText(dataset[i].pattern)],
                              classes |-> classes]
    /\ UNCHANGED <<datasetExists, dataset, trainIdx, testIdx, testCorrect, modelFile>>

\* line 82-88: pipe.score(test_x, test_y): the number of test records the
\* fitted pipeline labels correctly
Score ==
    /\ tpc = "L82"
    /\ \E correct \in 0..Cardinality(testIdx) : testCorrect' = correct
    /\ tpc' = "L90"
    /\ UNCHANGED <<datasetExists, dataset, trainIdx, testIdx, fitted, modelFile, terr>>

\* line 90-95: the accuracy gate
Gate ==
    /\ tpc = "L90"
    /\ IF BelowThreshold(testCorrect, Cardinality(testIdx))
       THEN tpc' = "exit" /\ terr' = ErrBelowThreshold
       ELSE tpc' = "L97" /\ terr' = terr
    /\ UNCHANGED <<datasetExists, dataset, trainIdx, testIdx, fitted, testCorrect, modelFile>>

\* line 97-99: MODEL_DIR.mkdir, joblib.dump(pipe, MODEL_PATH)
Save ==
    /\ tpc = "L97"
    /\ modelFile' = "new"
    /\ tpc' = "done"
    /\ UNCHANGED <<datasetExists, dataset, trainIdx, testIdx, fitted, testCorrect, terr>>

-----------------------------------------------------------------------------
(* Dataset collector: scripts/collect_data.py                              *)

\* most records the sources deliver in one run
MaxRecs == 4

\* lines and labels the sources deliver: "a", " a", "b", " "
RawPatterns == {<<97>>, <<32, 97>>, <<98>>, <<32>>}
RawTypes    == {"valid", "sqli", "lfi"}

NoRecord == [pattern |-> <<>>, type |-> "None"]

\* _make_record: strip the pattern; None for an empty pattern or a type
\* outside VALID_TYPES
MakeRecord(pattern, type_) ==
    LET p == Strip(pattern)
    IN  IF p = <<>> \/ type_ \notin VALID_TYPES THEN NoRecord
        ELSE [pattern |-> p, type |-> type_]

\* line 249 with the type left out of the key
DedupKeyPatternOnly(r) == <<r.pattern>>

\* line 249: key = (r["pattern"], r["type"])
DedupKey(r) == <<r.pattern, r.type>>

\* deduplicate: the loop of lines 246-253, F[i] its state after i records
Deduplicate(records) ==
    LET F[i \in 0..Len(records)] ==
            IF i = 0 THEN [seen |-> {}, unique |-> <<>>]
            ELSE LET prev == F[i - 1]
                     key  == DedupKey(records[i])
                 IN  IF key \notin prev.seen
                     THEN [seen   |-> prev.seen \cup {key},
                           unique |-> Append(prev.unique, records[i])]
                     ELSE prev
    IN  F[Len(records)].unique

CollInit ==
    /\ all_records = <<>>
    /\ collected = <<>>
    /\ cpc = "collect"
    /\ outFile = "absent"

\* line 260-266: a source delivers one more line; records that _make_record
\* rejects are not appended
Collect ==
    /\ cpc = "collect"
    /\ Len(all_records) < MaxRecs
    /\ \E p \in RawPatterns, ty \in RawTypes :
         LET rec == MakeRecord(p, ty)
         IN  all_records' = IF rec = NoRecord THEN all_records
                            ELSE Append(all_records, rec)
    /\ UNCHANGED <<collected, cpc, outFile>>

\* line 268: all_records = deduplicate(all_records)
\* (collected keeps the argument)
Dedup ==
    /\ cpc = "collect"
    /\ collected' = all_records
    /\ all_records' = Deduplicate(all_records)
    /\ cpc' = "deduped"
    /\ UNCHANGED outFile

\* line 274-276: the JSON array is written
WriteOut ==
    /\ cpc = "deduped"
    /\ outFile' = all_records
    /\ cpc' = "written"
    /\ UNCHANGED <<all_records, collected>>

-----------------------------------------------------------------------------
(* Specifications                                                          *)

EngOnly   == UNCHANGED <<loadVars, trainVars, collVars>>
LoadOnly  == UNCHANGED <<engVars, trainVars, collVars>>
TrainOnly == UNCHANGED <<engVars, loadVars, collVars>>
CollOnly  == UNCHANGED <<engVars, loadVars, trainVars>>

\* a Ready engine serving one call
SpecNormInit == EngInit /\ LoadIdle /\ TrainIdle /\ CollInit
SpecNormNext ==
    \/ CallTransform /\ EngOnly
    \/ CallTransformAgain /\ EngOnly
    \/ CallPredict /\ EngOnly
    \/ CallPredictProba /\ EngOnly
SpecNorm == SpecNormInit /\ [][SpecNormNext]_vars

\* callers constructing PayloadClassifier concurrently
SpecLoadInit == EngIdle /\ LoadInit /\ TrainIdle /\ CollInit
SpecLoadNext ==
    \E c \in Callers :
        \/ Begin(c) /\ LoadOnly
        \/ CheckPath(c) /\ LoadOnly
        \/ CheckFile(c) /\ LoadOnly
        \/ MakeDirs(c) /\ LoadOnly
        \/ FetchStart(c) /\ LoadOnly
        \/ FetchReturn(c) /\ LoadOnly
        \/ FetchRaise(c) /\ LoadOnly
        \/ Load(c) /\ LoadOnly
SpecLoad == SpecLoadInit /\ [][SpecLoadNext]_vars

\* one run of the training job
SpecTrainInit == EngIdle /\ LoadIdle /\ TrainInit /\ CollInit
SpecTrainNext ==
    \/ CheckDataset /\ TrainOnly
    \/ LoadDataset /\ TrainOnly
    \/ SplitFails /\ TrainOnly
    \/ Split /\ TrainOnly
    \/ Fit /\ TrainOnly
    \/ Score /\ TrainOnly
    \/ Gate /\ TrainOnly
    \/ Save /\ TrainOnly
SpecTrain == SpecTrainInit /\ [][SpecTrainNext]_vars

\* one run of the collector
SpecCollectInit == EngIdle /\ LoadIdle /\ TrainIdle /\ CollInit
SpecCollectNext ==
    \/ Collect /\ CollOnly
    \/ Dedup /\ CollOnly
    \/ WriteOut /\ CollOnly
SpecCollect == SpecCollectInit /\ [][SpecCollectNext]_vars

-----------------------------------------------------------------------------
(* Properties                                                              *)

\* The error kinds of the design, as the code raises them
InvalidInputError        == ErrPayloadRequired
ArtifactUnavailableError == ErrNoModelFile
AccuracyGateError        == ErrBelowThreshold

Chars(s) == {s[i] : i \in DOMAIN s}

\* ---------------------------------------------------------------- C1
\* C1: the artifact is written only by a run whose held-out test accuracy is
\* at least MIN_ACCURACY; a run whose test accuracy is below it ends at the
\* gate with the below-threshold exit and leaves the artifact file as it was.
C1_AccuracyGate ==
    /\ modelFile = "new" =>
           /\ tpc = "done"
           /\ testCorrect * 100 >= MinAccuracyPct * Cardinality(testIdx)
    /\ (/\ testCorrect >= 0
        /\ testCorrect * 100 < MinAccuracyPct * Cardinality(testIdx)
        /\ tpc # "L90") =>
           /\ tpc = "exit"
           /\ terr = AccuracyGateError
           /\ modelFile # "new"

\* a run stopped by the gate with an older artifact on disk, left untouched
C1_Witness ==
    /\ tpc = "exit" /\ terr = AccuracyGateError
    /\ testCorrect >= 0 /\ testCorrect < Cardinality(testIdx)
    /\ modelFile = "old"

\* ---------------------------------------------------------------- C2
\* C2: on a Ready engine, _transform, predict and predict_proba called with
\* an empty or None payload raise the payload-required error, the fitted
\* pipeline is not invoked, and the engine is unchanged.
C2_EmptyPayloadRaises ==
    (op # "none" /\ Falsy(inp)) =>
        /\ ret = Raised(InvalidInputError)
        /\ clfCalls = 0
        /\ eng = ReadyEngine

\* predict(None) has raised
C2_Witness ==
    /\ op = "predict" /\ inp = NoneV
    /\ ret = Raised(InvalidInputError) /\ clfCalls = 0

\* ---------------------------------------------------------------- C5
\* s holds no '+' and no '%' followed by two hex digits
NoEscapes(s) ==
    /\ 43 \notin Chars(s)
    /\ \A i \in DOMAIN s :
         ~(s[i] = 37 /\ i + 2 <= Len(s) /\ IsHex(s[i + 1]) /\ IsHex(s[i + 2]))

\* C5 as stated: _transform applied to its own output returns that output,
\* for every non-empty payload.
C5_Idempotent ==
    op = "_transform2" => ret2 = ret

\* C5 amended: _transform applied to its own output returns that output
\* whenever the output is non-empty and holds neither '+' nor a well-formed
\* %XX escape.
C5_IdempotentNoEscapes ==
    (op = "_transform2" /\ ret.s # <<>> /\ NoEscapes(ret.s)) => ret2 = ret

\* a payload that normalization changed, normalized a second time
C5_Witness ==
    /\ op = "_transform2" /\ ret.s # <<>> /\ NoEscapes(ret.s)
    /\ ret.s # inp.s /\ 37 \in Chars(inp.s) /\ 65 \in Chars(inp.s)
    /\ ret2 = ret

\* ---------------------------------------------------------------- C6
\* C6: the text _transform returns holds no '\n' and no '\r', also when the
\* newline came out of a percent escape; newlines are deleted, not turned
\* into spaces: when the decoded payload holds no whitespace but newlines,
\* the result holds no whitespace and is exactly as long as the decoded
\* payload without its newlines.
C6_NoNewlines ==
    (op = "_transform" /\ ret.kind = "str") =>
        LET d == Unquote(inp.s)
        IN  /\ Chars(ret.s) \cap NewLines = {}
            /\ (Chars(d) \cap Whitespace) \subseteq NewLines =>
                   /\ Chars(ret.s) \cap Whitespace = {}
                   /\ Len(ret.s) = Cardinality({i \in DOMAIN d : d[i] \notin NewLines})

\* a newline that only appears after decoding, between two other characters
C6_Witness ==
    /\ op = "_transform" /\ ret.kind = "str"
    /\ Chars(inp.s) \cap NewLines = {}
    /\ Chars(Unquote(inp.s)) \cap NewLines # {}
    /\ ret.s # <<>>

\* ---------------------------------------------------------------- C3
\* C3: of the callers that construct an engine for the same absent artifact,
\* at most one has a remote fetch under way at any time.
C3_SingleWinnerLoad ==
    \A c1, c2 \in Callers :
        (c1 # c2 /\ thr[c1].path = thr[c2].path) =>
            ~(thr[c1].pc = "fetching" /\ thr[c2].pc = "fetching")

\* ---------------------------------------------------------------- C4
\* C4: _ensure_model (a) raises the no-model-file error on an empty path
\* without calling makedirs or the fetch; (b) returns the given path, with no
\* makedirs and no fetch, when a file was at the path; (c) calls the fetch
\* only for a non-empty path with no file at it, after makedirs has made the
\* parent directory.
C4_LoaderConditions ==
    \A c \in Callers :
        LET t == thr[c]
        IN  /\ (t.path = <<>> /\ t.pc \notin {"idle", "L14"}) =>
                   /\ t.pc = "failed" /\ t.err = ArtifactUnavailableError
                   /\ ~t.mkdirs /\ ~t.fetch
            /\ t.existed = "yes" =>
                   /\ t.pc \in {"L25", "ready"}
                   /\ t.model_path = t.path
                   /\ ~t.mkdirs /\ ~t.fetch
            /\ t.fetch =>
                   /\ t.path # <<>> /\ t.existed = "no"
                   /\ t.mkdirs /\ Dirname(t.path) \in dirs

\* one caller has fetched the artifact, the other found it on disk
C4_Witness ==
    \E c1, c2 \in Callers :
        /\ thr[c1].fetch /\ thr[c1].pc = "ready"
        /\ thr[c2].existed = "yes" /\ thr[c2].pc = "ready"
        /\ thr[c2].path = thr[c1].path

\* ---------------------------------------------------------------- C10
\* C10: when _ensure_model(path) has returned after a fetch, a file is at
\* path and path is what it returned; and a call that began after such a
\* return for the same path does not fetch.
C10_FetchOnce ==
    \A c \in Callers :
        LET t == thr[c]
        IN  /\ (t.fetch /\ t.pc \in {"L25", "ready"}) =>
                   /\ t.path \in files
                   /\ t.model_path = t.path
            /\ t.late => ~t.fetch

\* ---------------------------------------------------------------- C7
InvalidDataset(ds) ==
    ds = <<>> \/ \E i \in DOMAIN ds : ds[i].type \notin VALID_TYPES

\* C7: for a dataset that is empty or holds a label outside the closed set,
\* the run ends before any split, fit or evaluation and writes no artifact.
C7_ValidationFirst ==
    InvalidDataset(dataset) =>
        /\ trainIdx = {} /\ testIdx = {}
        /\ fitted = NotFitted
        /\ testCorrect = -1
        /\ modelFile # "new"

\* ---------------------------------------------------------------- C8
\* C8: the pipeline is fitted on the train partition only, and the text the
\* extractor takes its n-grams from is, for each train pattern, the text it
\* takes them from when the engine is given that pattern.
C8_FitOnNormalizedTrain ==
    fitted # NotFitted =>
        /\ fitted.idx = trainIdx
        /\ fitted.idx \cap testIdx = {}
        /\ \A i \in fitted.idx :
             fitted.texts[i] = TfidfText(Transform(Str(dataset[i].pattern)).s)

\* ---------------------------------------------------------------- C9
FirstIndex(records, r) ==
    CHOOSE i \in DOMAIN records :
        records[i] = r /\ \A j \in 1..(i - 1) : records[j] # r

\* C9: deduplicate returns records with pairwise different (pattern, type),
\* exactly the pairs of its argument, in the order of their first occurrence;
\* records with the same pattern and different types are both kept.
C9_Deduplicate ==
    cpc \in {"deduped", "written"} =>
        LET in  == collected
            out == all_records
            Key(r) == <<r.pattern, r.type>>
        IN  /\ \A i, j \in DOMAIN out : i # j => Key(out[i]) # Key(out[j])
            /\ {Key(in[i]) : i \in DOMAIN in} = {Key(out[i]) : i \in DOMAIN out}
            /\ \A i, j \in DOMAIN out :
                 i < j => FirstIndex(in, out[i]) < FirstIndex(in, out[j])
            /\ \A i, j \in DOMAIN in :
                 (in[i].pattern = in[j].pattern /\ in[i].type # in[j].type) =>
                     \E k, l \in DOMAIN out : k # l /\ out[k] = in[i] /\ out[l] = in[j]

\* a repeated record was dropped and two types of one pattern were kept
C9_Witness ==
    /\ cpc = "deduped"
    /\ Len(all_records) < Len(collected)
    /\ \E k, l \in DOMAIN all_records :
         /\ all_records[k].pattern = all_records[l].pattern
         /\ all_records[k].type # all_records[l].type

====
